---- MODULE Spec2Model ----
(***************************************************************************)
(* TweetPrint: ordered dithering, raster packing, ESC/POS framing and the  *)
(* timed write sequence of print_gradient.py, print_image.py and           *)
(* print_tweet.py.                                                         *)
(*                                                                         *)
(* Spec       the three entry points (main) run to completion.             *)
(* SpecSend   send_to_printer called with arguments drawn from samples.    *)
(* SpecPack   build_bitmap / build_bitmap_from_image on bounded grids.     *)
(* SpecDither dither_pixel on bounded (gray, x, y).                        *)
(*                                                                         *)
(* A byte string is a sequence of integers 0..255.  In Spec and SpecSend   *)
(* the raster payload is carried by its length only (data_len): at the     *)
(* heights where the 16-bit header fields wrap it has over three million   *)
(* bytes; its contents are the subject of SpecPack, where data is the      *)
(* explicit byte string.                                                   *)
(***************************************************************************)
EXTENDS Integers, Sequences, FiniteSets, TLC

VARIABLES prog, pc, env, img, data, data_len, width_bytes, height_pixels,
          header, f, events, outcome, pixel, b

vars == <<prog, pc, env, img, data, data_len, width_bytes, height_pixels,
          header, f, events, outcome, pixel, b>>

(* ------------------------------ bounds --------------------------------- *)
MaxWidth == 17
MaxHeight == 9
MaxCoord == 9

(* -------------------------- program constants -------------------------- *)
WIDTH == 384
HEIGHT == 200
SLEEP_MS == 20

BAYER8 == << <<0,48,12,60,3,51,15,63>>,
             <<32,16,44,28,35,19,47,31>>,
             <<8,56,4,52,11,59,7,55>>,
             <<40,24,36,20,43,27,39,23>>,
             <<2,50,14,62,1,49,13,61>>,
             <<34,18,46,30,33,17,45,29>>,
             <<10,58,6,54,9,57,5,53>>,
             <<42,26,38,22,41,25,37,21>> >>

INIT == <<27, 64>>
NEWLINE == <<10>>

Progs == {"gradient", "image", "tweet"}

(* ------------------------------ dithering ------------------------------ *)
(* int(BAYER8[y % 8][x % 8] * (255.0 / 64.0)): 255/64 and the product are  *)
(* exact in binary floating point, so int() is the floor of the quotient.  *)
Threshold(x, y) == (BAYER8[(y % 8) + 1][(x % 8) + 1] * 255) \div 64

(* mutant: the comparison turned round (lighter than threshold = black) *)
dither_pixel_inverted(gray, x, y) == IF gray > Threshold(x, y) THEN 1 ELSE 0

dither_pixel(gray, x, y) == IF gray < Threshold(x, y) THEN 1 ELSE 0

(* print_gradient.py: the value -1 stands for the ZeroDivisionError that   *)
(* x / (width - 1) raises when width = 1.  For the widths of the model     *)
(* int((x / (width - 1)) * 255) equals the floor of x * 255 / (width - 1)  *)
(* and int((m + 0.5) * (255.0 / 64.0)) the floor of (2m + 1) * 255 / 128.  *)
ZeroDivision == -1

pixel_black(x, y, width) ==
    IF width - 1 = 0 THEN ZeroDivision
    ELSE LET gray == (x * 255) \div (width - 1)
             t == ((2 * BAYER8[(y % 8) + 1][(x % 8) + 1] + 1) * 255) \div 128
         IN IF gray > t THEN 1 ELSE 0

(* ---------------------------- pixel sources ---------------------------- *)
(* pixels[x, y] of a grayscale image: a bounded family of grids, the       *)
(* luminance at (x, y) being (a*x + b*y + c) mod 256.                      *)
Black == [a |-> 0, b |-> 0, c |-> 0]
White == [a |-> 0, b |-> 0, c |-> 255]
Sources == {Black, White, [a |-> 0, b |-> 0, c |-> 128],
            [a |-> 37, b |-> 91, c |-> 5], [a |-> 255, b |-> 0, c |-> 0],
            [a |-> 16, b |-> 3, c |-> 1]}

Pixel(src, x, y) == (src.a * x + src.b * y + src.c) % 256

(* ------------------------------- packing ------------------------------- *)
Pad(width) == (8 - (width % 8)) % 8
WidthPadded(width) == width + Pad(width)
BytesPerRow(width) == WidthPadded(width) \div 8

(* the value appended to row_bits for column x of row y *)
RowBit(p, image, x, y) ==
    IF x < image.w
    THEN IF p = "gradient" THEN pixel_black(x, y, image.w)
         ELSE dither_pixel(Pixel(image.src, x, y), x, y)
    ELSE 0

(* mutant: the first column of a group of 8 lands in the least significant bit *)
PackBits_lsb_first(p, image, y, byte_i, bit, val) ==
    (RowBit(p, image, byte_i * 8, y) + 2 * RowBit(p, image, byte_i * 8 + 1, y)
     + 4 * RowBit(p, image, byte_i * 8 + 2, y) + 8 * RowBit(p, image, byte_i * 8 + 3, y)
     + 16 * RowBit(p, image, byte_i * 8 + 4, y) + 32 * RowBit(p, image, byte_i * 8 + 5, y)
     + 64 * RowBit(p, image, byte_i * 8 + 6, y) + 128 * RowBit(p, image, byte_i * 8 + 7, y)) % 256

(* for bit in range(8): val <<= 1; val |= row_bits[byte_i * 8 + bit] *)
RECURSIVE PackBits(_, _, _, _, _, _)
PackBits(p, image, y, byte_i, bit, val) ==
    IF bit = 8 THEN val % 256
    ELSE PackBits(p, image, y, byte_i, bit + 1,
                  val * 2 + RowBit(p, image, byte_i * 8 + bit, y))

RowBytes(p, image, y) ==
    [byte_i \in 1..BytesPerRow(image.w) |-> PackBits(p, image, y, byte_i - 1, 0, 0)]

RowRaises(p, image, y) ==
    \E x \in 0..(WidthPadded(image.w) - 1) : RowBit(p, image, x, y) = ZeroDivision

(* for y in range(height): ... data.append(val & 0xFF) *)
RECURSIVE BuildRows(_, _, _, _)
BuildRows(p, image, y, acc) ==
    IF y >= image.h THEN [exc |-> "none", data |-> acc]
    ELSE IF RowRaises(p, image, y) THEN [exc |-> "ZeroDivisionError", data |-> <<>>]
    ELSE BuildRows(p, image, y + 1, acc \o RowBytes(p, image, y))

(* int(h * (WIDTH / float(w))); exact for the source widths of the model,  *)
(* all of which divide 768, so that WIDTH / w is a dyadic rational.  The   *)
(* source sizes of the model all give new_h >= 1.                          *)
NewH(w, h) == (h * WIDTH) \div w

Resized(image) == [w |-> WIDTH, h |-> NewH(image.w, image.h), src |-> image.src]

(* the grid the packing loops of copy p run over *)
Packed(p, image) == IF p = "image" THEN Resized(image) ELSE image

(* number of data.append calls of the packing loops *)
DataLen(width, height) == IF height > 0 THEN BytesPerRow(width) * height ELSE 0

(* ------------------------------- framing ------------------------------- *)
(* x & 0xFF and (x >> 8) & 0xFF on Python integers *)
Lo(v) == v % 256
Hi(v) == (v \div 256) % 256

(* mutant: each dimension written high byte first *)
Header_big_endian(wb, hp) == <<29, 118, 48, 0, Hi(wb), Lo(wb), Hi(hp), Lo(hp)>>

Header(wb, hp) == <<29, 118, 48, 0, Lo(wb), Hi(wb), Lo(hp), Hi(hp)>>

(* ------------------------------- events -------------------------------- *)
WriteEv(kind, bytes, n, ok) == [op |-> "write", kind |-> kind, buf |-> bytes, n |-> n, ok |-> ok]
FlushEv(ok) == [op |-> "flush", kind |-> "", buf |-> <<>>, n |-> 0, ok |-> ok]
SleepEv == [op |-> "sleep", kind |-> "", buf |-> <<>>, n |-> SLEEP_MS, ok |-> TRUE]

(* ------------------------------ inputs --------------------------------- *)
DevStates == {"present", "absent_creatable", "absent_nodir"}
NoSrc == White
ImageSizes == {<<384, 1>>, <<384, 200>>, <<768, 400>>, <<2, 341>>, <<1, 170>>,
               <<3, 512>>, <<1, 200>>}
TweetHeights == {126, 400, 65535, 65536, 70000}
DimSamples == {-1, 0, 1, 48, 49, 200, 255, 256, 257, 4660, 65279, 65535, 65536, 76800}
LenSamples == {0, 9600}

Blank ==
    /\ data = <<>> /\ data_len = 0 /\ width_bytes = 0 /\ height_pixels = 0
    /\ header = <<>> /\ f = "none" /\ events = <<>> /\ outcome = "none"
    /\ pixel = [gray |-> 0, x |-> 0, y |-> 0] /\ b = 0

Init ==
    /\ pc = "main"
    /\ prog \in Progs
    /\ \E dev \in DevStates, argc_ok \in BOOLEAN, source \in {"ok", "missing", "bad"} :
          /\ env = [dev |-> dev, argc_ok |-> argc_ok, source |-> source]
          /\ prog = "gradient" => argc_ok /\ source = "ok"
    /\ CASE prog = "gradient" -> img = [w |-> WIDTH, h |-> HEIGHT, src |-> NoSrc]
         [] prog = "image" -> \E s \in ImageSizes : img = [w |-> s[1], h |-> s[2], src |-> NoSrc]
         [] prog = "tweet" -> \E h \in TweetHeights : img = [w |-> WIDTH, h |-> h, src |-> NoSrc]
    /\ Blank

(* ---------------------------- entry points ----------------------------- *)
Finish(o) ==
    /\ pc' = "done" /\ outcome' = o
    /\ UNCHANGED <<prog, env, img, data, data_len, width_bytes, height_pixels,
                   header, f, events, pixel, b>>

(* data, width_bytes[, height] = build_bitmap...(...) *)
Built(image, hp) ==
    /\ width_bytes' = BytesPerRow(image.w)
    /\ data_len' = DataLen(image.w, image.h)
    /\ height_pixels' = hp
    /\ UNCHANGED <<prog, env, img, data, header, f, events, pixel, b>>

main_gradient ==
    /\ pc = "main" /\ prog = "gradient"
    /\ IF env.dev # "present" THEN Finish("DeviceNotFound")
       ELSE /\ Built([w |-> WIDTH, h |-> HEIGHT, src |-> NoSrc], HEIGHT)
            /\ pc' = "send" /\ UNCHANGED outcome

main_image ==
    /\ pc = "main" /\ prog = "image"
    /\ IF ~env.argc_ok THEN Finish("Usage")
       ELSE IF env.source = "missing" THEN Finish("SourceNotFound")
       ELSE IF env.source = "bad" THEN Finish("Unhandled")
       ELSE /\ Built(Resized(img), Resized(img).h)
            /\ IF env.dev # "present"
               THEN pc' = "done" /\ outcome' = "DeviceNotFound"
               ELSE pc' = "send" /\ UNCHANGED outcome

main_tweet ==
    /\ pc = "main" /\ prog = "tweet"
    /\ IF ~env.argc_ok THEN Finish("Usage")
       ELSE IF env.source # "ok" THEN Finish("Unhandled")
       ELSE /\ Built(img, img.h)
            /\ pc' = "send" /\ UNCHANGED outcome

(* --------------------------- send_to_printer --------------------------- *)
(* an exception leaves the with block (the handle is closed) and reaches   *)
(* the except clause of main, which prints the failure line                *)
Raise ==
    /\ pc' = "done" /\ outcome' = "TransmissionFailed"
    /\ f' = IF f = "open" THEN "closed" ELSE f

(* open(dev, "wb", buffering=0): on a device node it succeeds or raises    *)
(* OSError; on a missing path it creates a regular file when the parent    *)
(* directory exists and is writable, and raises FileNotFoundError when it  *)
(* does not.                                                               *)
send_open ==
    /\ pc = "send"
    /\ header' = Header(width_bytes, height_pixels)
    /\ \/ /\ env.dev = "absent_nodir"
          /\ Raise
       \/ /\ env.dev = "absent_creatable"
          /\ f' = "open" /\ pc' = "write1" /\ UNCHANGED outcome
       \/ /\ env.dev = "present"
          /\ \E ok \in BOOLEAN :
                IF ok THEN f' = "open" /\ pc' = "write1" /\ UNCHANGED outcome
                ELSE Raise
    /\ UNCHANGED <<prog, env, img, data, data_len, width_bytes, height_pixels,
                   events, pixel, b>>

(* One call on the handle: it is logged, and it either returns or raises.  *)
(* A write that returns is taken to have delivered the whole buffer (the   *)
(* line-printer device blocks until it has).                               *)
(* mutant: a failed write or flush is ignored and the sequence goes on *)
Emit_swallow(ev, to) ==
    /\ events' = Append(events, ev)
    /\ pc' = to
    /\ UNCHANGED <<prog, env, img, data, data_len, width_bytes, height_pixels,
                   header, f, outcome, pixel, b>>

Emit(ev, to) ==
    /\ events' = Append(events, ev)
    /\ IF ev.ok THEN pc' = to /\ UNCHANGED <<f, outcome>> ELSE Raise
    /\ UNCHANGED <<prog, env, img, data, data_len, width_bytes, height_pixels,
                   header, pixel, b>>

write1 ==
    /\ pc = "write1"
    /\ \E ok \in BOOLEAN : Emit(WriteEv("newline", NEWLINE, Len(NEWLINE), ok), "flush1")

flush1 ==
    /\ pc = "flush1"
    /\ \E ok \in BOOLEAN : Emit(FlushEv(ok), "sleep1")

(* mutant: the first settling wait is left out *)
sleep1_skipped ==
    /\ pc = "sleep1"
    /\ pc' = "write2"
    /\ UNCHANGED <<prog, env, img, data, data_len, width_bytes, height_pixels,
                   header, f, events, outcome, pixel, b>>

sleep1 ==
    /\ pc = "sleep1"
    /\ Emit(SleepEv, "write2")

write2 ==
    /\ pc = "write2"
    /\ \E ok \in BOOLEAN :
          Emit(WriteEv("header", INIT \o header, Len(INIT \o header), ok), "flush2")

flush2 ==
    /\ pc = "flush2"
    /\ \E ok \in BOOLEAN : Emit(FlushEv(ok), "sleep2")

sleep2 ==
    /\ pc = "sleep2"
    /\ Emit(SleepEv, "write3")

write3 ==
    /\ pc = "write3"
    /\ \E ok \in BOOLEAN : Emit(WriteEv("data", <<>>, data_len, ok), "flush3")

flush3 ==
    /\ pc = "flush3"
    /\ \E ok \in BOOLEAN : Emit(FlushEv(ok), "return")

send_return ==
    /\ pc = "return"
    /\ f' = "closed" /\ pc' = "done" /\ outcome' = "OK"
    /\ UNCHANGED <<prog, env, img, data, data_len, width_bytes, height_pixels,
                   header, events, pixel, b>>

SendNext ==
    \/ send_open \/ write1 \/ flush1 \/ sleep1 \/ write2 \/ flush2 \/ sleep2
    \/ write3 \/ flush3 \/ send_return

Next == main_gradient \/ main_image \/ main_tweet \/ SendNext

Spec == Init /\ [][Next]_vars

(* ------------- send_to_printer on sampled arguments (SpecSend) ---------- *)
InitSend ==
    /\ pc = "send"
    /\ prog \in Progs
    /\ \E dev \in DevStates : env = [dev |-> dev, argc_ok |-> TRUE, source |-> "ok"]
    /\ img = [w |-> 0, h |-> 0, src |-> NoSrc]
    /\ data = <<>> /\ header = <<>> /\ f = "none" /\ events = <<>> /\ outcome = "none"
    /\ pixel = [gray |-> 0, x |-> 0, y |-> 0] /\ b = 0
    /\ width_bytes \in DimSamples
    /\ height_pixels \in DimSamples
    /\ data_len \in LenSamples

SpecSend == InitSend /\ [][SendNext]_vars

(* --------------- the packers on bounded grids (SpecPack) --------------- *)
SmallGrids == [w : 0..MaxWidth, h : 0..MaxHeight, src : Sources]
PackInputs(p) ==
    CASE p = "gradient" -> {g \in SmallGrids : g.src = NoSrc}
                           \cup {[w |-> 385, h |-> 1, src |-> NoSrc]}
      [] p = "tweet" -> SmallGrids \cup [w : {384, 385}, h : {1, 10}, src : {Black, White}]
      [] p = "image" -> [w : {WIDTH, 2 * WIDTH}, h : {2 * k : k \in 1..MaxHeight} \cup {10, 20},
                         src : Sources]

InitPack ==
    /\ pc = "build"
    /\ prog \in Progs
    /\ img \in PackInputs(prog)
    /\ env = [dev |-> "present", argc_ok |-> TRUE, source |-> "ok"]
    /\ Blank

Build(p) ==
    /\ pc' = "built"
    /\ LET image == Packed(p, img)
           r == BuildRows(p, image, 0, <<>>)
       IN /\ img' = image
          /\ IF r.exc = "none"
             THEN /\ outcome' = "returned"
                  /\ data' = r.data
                  /\ width_bytes' = BytesPerRow(image.w)
                  /\ height_pixels' = IF p = "gradient" THEN height_pixels ELSE image.h
             ELSE /\ outcome' = r.exc
                  /\ UNCHANGED <<data, width_bytes, height_pixels>>
    /\ UNCHANGED <<prog, env, data_len, header, f, events, pixel, b>>

build_bitmap ==
    /\ pc = "build" /\ prog = "gradient"
    /\ Build("gradient")

build_bitmap_from_image ==
    /\ pc = "build" /\ prog = "image"
    /\ Build("image")

build_bitmap_from_image_tweet ==
    /\ pc = "build" /\ prog = "tweet"
    /\ Build("tweet")

PackNext == build_bitmap \/ build_bitmap_from_image \/ build_bitmap_from_image_tweet

SpecPack == InitPack /\ [][PackNext]_vars

(* ---------------- dither_pixel on bounded inputs (SpecDither) ---------- *)
InitDither ==
    /\ pc = "dither"
    /\ prog \in {"image", "tweet"}
    /\ pixel \in [gray : 0..255, x : 0..MaxCoord, y : 0..MaxCoord]
    /\ img = [w |-> 0, h |-> 0, src |-> NoSrc]
    /\ env = [dev |-> "present", argc_ok |-> TRUE, source |-> "ok"]
    /\ data = <<>> /\ data_len = 0 /\ width_bytes = 0 /\ height_pixels = 0
    /\ header = <<>> /\ f = "none" /\ events = <<>> /\ outcome = "none"
    /\ b = 0

call_dither_pixel ==
    /\ pc = "dither"
    /\ pc' = "dithered"
    /\ b' = dither_pixel(pixel.gray, pixel.x, pixel.y)
    /\ UNCHANGED <<prog, env, img, data, data_len, width_bytes, height_pixels,
                   header, f, events, outcome, pixel>>

SpecDither == InitDither /\ [][call_dither_pixel]_vars

(* =============================== claims ================================ *)
Ops(evs) == [i \in 1..Len(evs) |-> evs[i].op]
IsPrefix(s, t) == Len(s) <= Len(t) /\ \A i \in 1..Len(s) : s[i] = t[i]
ExpectedOps == <<"write", "flush", "sleep", "write", "flush", "sleep", "write", "flush">>
ExpectedKinds == <<"newline", "", "", "header", "", "", "data", "">>
InRange(v) == v \in 0..65535
HeaderWritten == \E i \in 1..Len(events) : events[i].kind = "header" /\ events[i].ok

(* bit (7 - x mod 8) of byte y * bytesPerRow + x div 8 of a packed buffer *)
ReadBit(d, bpr, x, y) == (d[y * bpr + (x \div 8) + 1] \div (2 ^ (7 - (x % 8)))) % 2

(* the dot decision of copy p for pixel (x, y) *)
Decision(p, image, x, y) ==
    IF p = "gradient" THEN pixel_black(x, y, image.w)
    ELSE dither_pixel(Pixel(image.src, x, y), x, y)

(* C1: in every run of every copy of send_to_printer the events on the     *)
(* handle form a prefix of write(newline), flush, sleep 20 ms,             *)
(* write(reset + 8-byte header), flush, sleep 20 ms, write(payload),       *)
(* flush; a successful run performs exactly these eight events, each       *)
(* without error, with one 10-byte write in phase 2.                       *)
C1_EventOrder ==
    /\ IsPrefix(Ops(events), ExpectedOps)
    /\ \A i \in 1..Len(events) :
          /\ events[i].kind = ExpectedKinds[i]
          /\ events[i].op = "sleep" => events[i].n = 20
    /\ outcome = "OK" =>
          /\ Ops(events) = ExpectedOps
          /\ \A i \in 1..Len(events) : events[i].ok
          /\ events[1].buf = <<10>>
          /\ Len(events[4].buf) = 10
          /\ SubSeq(events[4].buf, 1, 2) = <<27, 64>>
          /\ events[7].n = data_len

C1_Witness == pc = "done" /\ outcome = "OK" /\ prog = "tweet" /\ Len(events) = 8

(* C2: when the device path does not exist, a run that gets past the       *)
(* argument and source checks ends with DeviceNotFound and no write is     *)
(* ever performed on the device path, for every entry point.               *)
C2_DeviceNotFound ==
    env.dev # "present" =>
       /\ \A i \in 1..Len(events) : events[i].op # "write"
       /\ (pc = "done" /\ outcome \notin {"Usage", "SourceNotFound", "Unhandled"})
             => outcome = "DeviceNotFound"

(* C3: a write or flush that fails is the last event of the run (no later  *)
(* write, no retry), the run then ends with the failure reported, and OK   *)
(* is reported only after the three writes each happened once without      *)
(* error.                                                                  *)
C3_FailureStops ==
    /\ \A i \in 1..Len(events) :
          ~events[i].ok => (i = Len(events) /\ pc = "done" /\ outcome = "TransmissionFailed")
    /\ \A k \in {"newline", "header", "data"} :
          Cardinality({i \in 1..Len(events) : events[i].kind = k}) <= 1
    /\ outcome = "OK" =>
          \A k \in {"newline", "header", "data"} :
             \E i \in 1..Len(events) : events[i].kind = k /\ events[i].ok

C3_Witness ==
    /\ pc = "done" /\ outcome = "TransmissionFailed"
    /\ Len(events) = 4 /\ events[4].kind = "header" /\ ~events[4].ok

(* C4: when bytesPerRow or heightPixels handed to send_to_printer is       *)
(* outside 0..65535, no header is written to the device and a run whose    *)
(* device operations all succeed ends with DimensionOverflow.              *)
C4_DimensionOverflow ==
    (pc # "main" /\ (~InRange(width_bytes) \/ ~InRange(height_pixels))) =>
       /\ ~HeaderWritten
       /\ (pc = "done" /\ f = "closed" /\ \A i \in 1..Len(events) : events[i].ok)
             => outcome = "DimensionOverflow"

(* C5: for bytesPerRow and heightPixels in 0..65535 the phase 2 write is   *)
(* 1B 40 1D 76 30 00, then bytesPerRow low byte, high byte, then           *)
(* heightPixels low byte, high byte; low + 256 * high gives back each      *)
(* dimension; the only write after it is the payload; for 48 and 200 the   *)
(* header is 1D 76 30 00 30 00 C8 00.  The first conjunct decodes the      *)
(* header of every value of 0..65535 in each of the two fields; the        *)
(* second follows the bytes through the write sequence.                    *)
C5_HeaderBytes ==
    /\ (pc = "send" /\ width_bytes = 0 /\ height_pixels = 0 /\ data_len = 0) =>
          \A v \in 0..65535 :
             LET h == Header(v, 65535 - v) IN
             /\ Len(h) = 8 /\ SubSeq(h, 1, 4) = <<29, 118, 48, 0>>
             /\ \A k \in 5..8 : h[k] \in 0..255
             /\ h[5] + 256 * h[6] = v
             /\ h[7] + 256 * h[8] = 65535 - v
    /\ (InRange(width_bytes) /\ InRange(height_pixels)) =>
       \A i \in 1..Len(events) :
          events[i].kind = "header" =>
             LET buf == events[i].buf IN
             /\ Len(buf) = 10 /\ events[i].n = 10
             /\ SubSeq(buf, 1, 6) = <<27, 64, 29, 118, 48, 0>>
             /\ \A k \in 7..10 : buf[k] \in 0..255
             /\ buf[7] + 256 * buf[8] = width_bytes
             /\ buf[9] + 256 * buf[10] = height_pixels
             /\ (width_bytes = 48 /\ height_pixels = 200)
                   => SubSeq(buf, 3, 10) = <<29, 118, 48, 0, 48, 0, 200, 0>>
             /\ \A j \in (i + 1)..Len(events) :
                   events[j].op = "write" => (events[j].kind = "data" /\ events[j].n = data_len)

C5_Witness ==
    /\ width_bytes = 4660 /\ height_pixels = 65279
    /\ Len(events) >= 7 /\ events[7].kind = "data" /\ events[7].ok

(* C6: in the buffer a packer returns, bit (7 - x mod 8) of byte           *)
(* y * bytesPerRow + x div 8 is the dot decision of pixel (x, y) for       *)
(* x < width and 0 for every padding column.                               *)
C6_PackRoundTrip ==
    (pc = "built" /\ outcome = "returned") =>
       \A y \in 0..(img.h - 1) : \A x \in 0..(8 * width_bytes - 1) :
          /\ x >= img.w => ReadBit(data, width_bytes, x, y) = 0
          /\ x < img.w => ReadBit(data, width_bytes, x, y) = Decision(prog, img, x, y)

C6_Witness ==
    /\ pc = "built" /\ outcome = "returned" /\ prog = "tweet"
    /\ img.w = 13 /\ img.h = 9 /\ 8 * width_bytes > img.w
    /\ \E i \in 1..Len(data) : data[i] \notin {0, 255}

(* C7: for every width >= 0 and height >= 0 each packer returns            *)
(* bytesPerRow = ceil(width / 8) and exactly bytesPerRow * height bytes,   *)
(* each in 0..255 (width 385 gives bytesPerRow 49).                        *)
C7_PackerSize ==
    pc = "built" =>
       /\ outcome = "returned"
       /\ width_bytes = (img.w + 7) \div 8
       /\ Len(data) = width_bytes * img.h
       /\ \A i \in 1..Len(data) : data[i] \in 0..255
       /\ img.w = 385 => width_bytes = 49

(* C8: packing the 384 x 10 grid of luminance 0 with dither_pixel gives a  *)
(* payload whose every byte is 0xFF.                                       *)
C8_AllBlack ==
    (pc = "built" /\ prog \in {"image", "tweet"}
     /\ img = [w |-> 384, h |-> 10, src |-> Black]) =>
       /\ Len(data) = 480
       /\ \A i \in 1..Len(data) : data[i] = 255

(* C9: at a fixed position a lighter luminance is never painted black      *)
(* when a darker one is not, and the result is the same at every position  *)
(* with the same x mod 8 and y mod 8.                                      *)
C9_Monotone ==
    pc = "dithered" =>
       /\ b \in {0, 1}
       /\ \A g2 \in 0..255 :
             pixel.gray <= g2 => b >= dither_pixel(g2, pixel.x, pixel.y)
       /\ \A x2 \in 0..MaxCoord, y2 \in 0..MaxCoord :
             (x2 % 8 = pixel.x % 8 /\ y2 % 8 = pixel.y % 8)
                => dither_pixel(pixel.gray, x2, y2) = b

C9_Witness ==
    /\ pc = "dithered" /\ b = 1 /\ pixel.x = 8 /\ pixel.y = 9 /\ pixel.gray > 0
    /\ dither_pixel(255, pixel.x, pixel.y) = 0

(* C10: in every run that writes the payload, the number of payload bytes  *)
(* equals bytesPerRow * heightPixels as decoded from the header written    *)
(* in phase 2 of the same run.                                             *)
C10_PayloadMatchesHeader ==
    \A i \in 1..Len(events) : \A j \in 1..Len(events) :
       (events[i].kind = "header" /\ events[j].kind = "data" /\ events[j].ok) =>
          events[j].n = (events[i].buf[7] + 256 * events[i].buf[8])
                        * (events[i].buf[9] + 256 * events[i].buf[10])

====
